---- MODULE Spec2Model ----
(***************************************************************************)
(* Model of the AnnotationCanvas component                                 *)
(* (frontend/src/components/annotation/AnnotationCanvas.tsx): the React    *)
(* state of one component instance, one action per event handler.          *)
(*                                                                         *)
(* Conventions.  JS arrays are 0-based, sequences here are 1-based: the    *)
(* index i of the source is i+1 here and the null index is NoIndex (0).    *)
(* A null object is the record Null.  The scale is an exact fraction       *)
(* [n, d]; the image sizes of ImageSizes make every quotient the handlers  *)
(* compute an integer, so image-space coordinates stay integers.           *)
(***************************************************************************)
EXTENDS Integers, Sequences, FiniteSets, TLC

VARIABLES
  selectedTool,        \* "select" | "bbox"
  annotations,         \* the annotation list (Scene Store)
  isDrawing,
  startPoint,          \* canvas point or Null
  currentRect,         \* rectangle or Null
  selectedAnnotation,  \* index or NoIndex
  image,               \* loaded image [width, height] or Null
  scale,               \* [n, d]
  imageOffset,         \* [x, y]
  isEditing,
  editMode,            \* "move" | "resize" | "null"
  resizeHandle,        \* handle name or "null"
  dragStart,           \* canvas point or Null
  originalAnnotation,  \* annotation or Null
  editingLabel,        \* index or NoIndex
  tempLabel,
  imageUrl,            \* the image the imageUrl prop refers to, as its size
  loading,             \* the images created by the image effect whose onload has not fired
  now,                 \* the value Date.now() returned last
  lastNotified,        \* {the list last passed to onAnnotationsChange}, {} before the first call
  notified,            \* number of onAnnotationsChange calls in the last event
  ev,                  \* the last event handled and its input
  events               \* number of input events handled so far

vars == <<selectedTool, annotations, isDrawing, startPoint, currentRect,
          selectedAnnotation, image, scale, imageOffset, isEditing, editMode,
          resizeHandle, dragStart, originalAnnotation, editingLabel, tempLabel,
          imageUrl, loading, now, lastNotified, notified, ev, events>>

----------------------------------------------------------------------------
(* Bounds of the model *)

MaxClock == 1
MaxEvents == 7

(* Program constants *)

containerWidth == 800
containerHeight == 600
containerMargin == 40
minSize == 10
handleSize == 12

NoIndex == 0
Null == [null |-> TRUE]

Pt(px, py) == [x |-> px, y |-> py]

Ann(i, ax, ay, w, h, l) ==
  [id |-> i, x |-> ax, y |-> ay, width |-> w, height |-> h, label |-> l]

(* Inputs: image sizes, host-supplied initial lists, pointer positions *)

\* shown at scale 1/2 with offset (20, 150)
ImageSizes == { [width |-> 1520, height |-> 600] }

SeedA == Ann(-1, 10, 10, 50, 50, "A")
SeedB == Ann(-2, 30, 30, 50, 50, "B")

InitialLists == { <<>>, <<SeedA, SeedB>> }

Points == { Pt(10, 60), Pt(40, 170), Pt(45, 175), Pt(60, 190) }

LabelInputs == { "", " cat " }

Min(a, b) == IF a <= b THEN a ELSE b
Max(a, b) == IF a >= b THEN a ELSE b
Abs(a) == IF a >= 0 THEN a ELSE -a

----------------------------------------------------------------------------
(* Viewport transform *)

RECURSIVE Gcd(_, _)
Gcd(a, b) == IF b = 0 THEN a ELSE Gcd(b, a % b)

\* Math.min(scaleX, scaleY, 1) with scaleX = 760/w and scaleY = 560/h
\* variant: Math.min without the 1, a small image is enlarged
NewScale_Upscale(img) ==
  LET sx == [n |-> containerWidth - containerMargin, d |-> img.width]
      sy == [n |-> containerHeight - containerMargin, d |-> img.height]
      m  == IF sx.n * sy.d <= sy.n * sx.d THEN sx ELSE sy
      g  == Gcd(m.n, m.d)
  IN  [n |-> m.n \div g, d |-> m.d \div g]

\* Math.min(scaleX, scaleY, 1), in lowest terms
NewScale(img) ==
  LET sx == [n |-> containerWidth - containerMargin, d |-> img.width]
      sy == [n |-> containerHeight - containerMargin, d |-> img.height]
      m1 == IF sx.n * sy.d <= sy.n * sx.d THEN sx ELSE sy
      m  == IF m1.n <= m1.d THEN m1 ELSE [n |-> 1, d |-> 1]
      g  == Gcd(m.n, m.d)
  IN  [n |-> m.n \div g, d |-> m.d \div g]

NewOffset(img, s) ==
  [x |-> (containerWidth - (img.width * s.n) \div s.d) \div 2,
   y |-> (containerHeight - (img.height * s.n) \div s.d) \div 2]

\* v / scale
DivScale(v) == (v * scale.d) \div scale.n

\* variant: the position is taken relative to the corner of the displayed image
getCanvasMousePos_FromImageCorner(p) ==
  [x |-> p.x - imageOffset.x, y |-> p.y - imageOffset.y]

\* clientX - rect.left, clientY - rect.top: the event position on the canvas
getCanvasMousePos(p) == p

\* variant: the canvas position divided by the scale, offset not subtracted
getImageMousePos_NoOffset(p) ==
  LET ix == DivScale(p.x)
      iy == DivScale(p.y)
      iw == IF image = Null THEN 0 ELSE image.width
      ih == IF image = Null THEN 0 ELSE image.height
  IN  [x |-> Max(0, Min(iw, ix)), y |-> Max(0, Min(ih, iy))]

getImageMousePos(p) ==
  LET ix == DivScale(p.x - imageOffset.x)
      iy == DivScale(p.y - imageOffset.y)
      iw == IF image = Null THEN 0 ELSE image.width
      ih == IF image = Null THEN 0 ELSE image.height
  IN  [x |-> Max(0, Min(iw, ix)), y |-> Max(0, Min(ih, iy))]

\* drawCanvas: x = annotation.x * scale + imageOffset.x, same for y
imageToDevice(p) ==
  [x |-> imageOffset.x + (p.x * scale.n) \div scale.d,
   y |-> imageOffset.y + (p.y * scale.n) \div scale.d]

\* the canvas element as mounted: nothing has been painted on it
BlankSurface ==
  [cleared |-> FALSE, background |-> "none", image |-> Null, boxes |-> <<>>,
   selected |-> NoIndex, preview |-> Null]

\* The surface after the redraw effect has run in the current state. The
\* effect runs after every render in which one of its dependencies changed;
\* drawCanvas returns before clearRect while image is null, and image never
\* becomes null again, so until the first load the surface is as mounted.
drawCanvas ==
  IF image = Null
    THEN BlankSurface
    ELSE [cleared |-> TRUE, background |-> "#f3f4f6", image |-> image,
          boxes |-> annotations, selected |-> selectedAnnotation,
          preview |-> IF currentRect # Null /\ isDrawing
                        THEN currentRect ELSE Null]

----------------------------------------------------------------------------
(* Hit testing.  Device-space comparisons are made on both sides           *)
(* multiplied by 2 * scale.d, which keeps them exact.                      *)

K == 2 * scale.d
DevX(ix) == imageOffset.x * K + 2 * scale.n * ix
DevY(iy) == imageOffset.y * K + 2 * scale.n * iy

InBox(p, a) ==
  /\ p.x * K >= DevX(a.x)
  /\ p.x * K <= DevX(a.x) + 2 * scale.n * a.width
  /\ p.y * K >= DevY(a.y)
  /\ p.y * K <= DevY(a.y) + 2 * scale.n * a.height

RECURSIVE findFrom(_, _, _)

\* variant: the hit box is grown by half a handle on every side, so that a
\* press anywhere on a handle hits the annotation
findFrom_Padded(anns, p, i) ==
  IF i = 0 THEN NoIndex
  ELSE IF /\ p.x * K >= DevX(anns[i].x) - (handleSize \div 2) * K
          /\ p.x * K <= DevX(anns[i].x) + 2 * scale.n * anns[i].width
                           + (handleSize \div 2) * K
          /\ p.y * K >= DevY(anns[i].y) - (handleSize \div 2) * K
          /\ p.y * K <= DevY(anns[i].y) + 2 * scale.n * anns[i].height
                           + (handleSize \div 2) * K
       THEN i
  ELSE findFrom(anns, p, i - 1)

\* the loop of handleMouseDown: i from the last index down to the first
findFrom(anns, p, i) ==
  IF i = 0 THEN NoIndex
  ELSE IF InBox(p, anns[i]) THEN i
  ELSE findFrom(anns, p, i - 1)

\* variant: the loop runs from the first index up, the bottom annotation wins
RECURSIVE findUpFrom(_, _, _)
findUpFrom(anns, p, i) ==
  IF i > Len(anns) THEN NoIndex
  ELSE IF InBox(p, anns[i]) THEN i
  ELSE findUpFrom(anns, p, i + 1)

findAnnotationAt_Forward(anns, p) == findUpFrom(anns, p, 1)

findAnnotationAt(anns, p) == findFrom(anns, p, Len(anns))

\* variant: the edge handles are tested before the corner handles
HandleOrder_EdgesFirst == <<"n", "s", "w", "e", "nw", "ne", "sw", "se">>

\* the order of the handles array
HandleOrder == <<"nw", "ne", "sw", "se", "n", "s", "w", "e">>

\* top-left corner of the hotspot of a handle, times K
HandleX(h, a) ==
  LET x  == DevX(a.x)
      w  == 2 * scale.n * a.width
      hs == (handleSize \div 2) * K
  IN  CASE h \in {"nw", "sw", "w"} -> x - hs
        [] h \in {"ne", "se", "e"} -> x + w - hs
        [] OTHER                   -> x + w \div 2 - hs

HandleY(h, a) ==
  LET y  == DevY(a.y)
      ht == 2 * scale.n * a.height
      hs == (handleSize \div 2) * K
  IN  CASE h \in {"nw", "ne", "n"} -> y - hs
        [] h \in {"sw", "se", "s"} -> y + ht - hs
        [] OTHER                   -> y + ht \div 2 - hs

InHandle(p, h, a) ==
  /\ p.x * K >= HandleX(h, a)
  /\ p.x * K <= HandleX(h, a) + handleSize * K
  /\ p.y * K >= HandleY(h, a)
  /\ p.y * K <= HandleY(h, a) + handleSize * K

RECURSIVE handleFrom(_, _, _)
handleFrom(p, a, k) ==
  IF k > Len(HandleOrder) THEN "null"
  ELSE IF InHandle(p, HandleOrder[k], a) THEN HandleOrder[k]
  ELSE handleFrom(p, a, k + 1)

\* variant: no handle is ever matched, every press on the selection moves it
getResizeHandle_None(p, a, index) == "null"

getResizeHandle(p, a, index) ==
  IF selectedAnnotation # index THEN "null" ELSE handleFrom(p, a, 1)

----------------------------------------------------------------------------
(* Change Notifier: onAnnotationsChange(list) *)

Notify(list) == lastNotified' = {list} /\ notified' = 1
NoNotify == lastNotified' = lastNotified /\ notified' = 0

\* the phase of the interaction state machine the flags encode
Phase ==
  IF isEditing THEN (IF editMode = "resize" THEN "Resizing" ELSE "Moving")
  ELSE IF isDrawing THEN "Drawing"
  ELSE "Idle"

\* a press on the canvas takes the focus from the label input: the input's
\* onBlur runs after the press and before any other handler
blurPending == ev.type = "mousedown" /\ editingLabel # NoIndex

\* one input event: t is the handler, p the pointer position it received;
\* during is the phase the event arrived in
Event(t, p) ==
  /\ blurPending => t = "blur"
  /\ events < MaxEvents
  /\ events' = events + 1
  /\ ev' = [type |-> t, pos |-> p, during |-> Phase]

Trim(s) == CASE s = " cat " -> "cat" [] s = " " -> "" [] OTHER -> s

Init ==
  /\ selectedTool = "select"
  /\ annotations \in InitialLists
  /\ isDrawing = FALSE
  /\ startPoint = Null
  /\ currentRect = Null
  /\ selectedAnnotation = NoIndex
  /\ image = Null
  /\ scale = [n |-> 1, d |-> 1]
  /\ imageOffset = Pt(0, 0)
  /\ isEditing = FALSE
  /\ editMode = "null"
  /\ resizeHandle = "null"
  /\ dragStart = Null
  /\ originalAnnotation = Null
  /\ editingLabel = NoIndex
  /\ tempLabel = ""
  /\ imageUrl \in ImageSizes
  /\ loading = {imageUrl}
  /\ now = 0
  /\ lastNotified = {}
  /\ notified = 0
  /\ ev = [type |-> "init", pos |-> Null, during |-> "Idle"]
  /\ events = 0

----------------------------------------------------------------------------
(* img.onload *)

\* the onload callback of one of the images the effect created: the effect has
\* no cleanup, so the callback of every run stays armed
ImageOnload ==
  /\ ~blurPending
  /\ \E img \in loading :
       /\ loading' = loading \ {img}
       /\ image' = img
       /\ scale' = NewScale(img)
       /\ imageOffset' = NewOffset(img, NewScale(img))
  /\ ev' = [type |-> "load", pos |-> Null, during |-> Phase]
  /\ NoNotify
  /\ UNCHANGED <<selectedTool, annotations, isDrawing, startPoint, currentRect,
                 selectedAnnotation, isEditing, editMode, resizeHandle,
                 dragStart, originalAnnotation, editingLabel, tempLabel,
                 imageUrl, now, events>>

----------------------------------------------------------------------------
(* Label editor *)

\* the list updateAnnotationLabel(index, newLabel) stores and reports
updateAnnotationLabel(anns, index, newLabel) ==
  [anns EXCEPT ![index].label = newLabel]

\* variant: the buffer is stored as typed, with its surrounding blanks
SaveEffect_NoTrim(index) ==
  /\ IF Trim(tempLabel) # ""
       THEN /\ annotations' = updateAnnotationLabel(annotations, index, tempLabel)
            /\ Notify(annotations')
       ELSE /\ annotations' = annotations
            /\ NoNotify
  /\ editingLabel' = NoIndex
  /\ tempLabel' = ""

\* saveLabelEdit(index), run by the Enter key and by the blur of the label input
SaveEffect(index) ==
  /\ IF Trim(tempLabel) # ""
       THEN /\ annotations' = updateAnnotationLabel(annotations, index, Trim(tempLabel))
            /\ Notify(annotations')
       ELSE /\ annotations' = annotations
            /\ NoNotify
  /\ editingLabel' = NoIndex
  /\ tempLabel' = ""

\* The array the component held before updateAnnotationLabel ran, as it
\* reads afterwards: [...annotations] copies the array, not its records, so
\* the assignment newAnnotations[index].label = newLabel writes to the record
\* that the earlier array contains as well.
heldAfterLabelWrite(anns, index, newLabel) ==
  [anns EXCEPT ![index].label = newLabel]

\* the earlier array after saveLabelEdit(index)
heldAfterSave(index) ==
  IF Trim(tempLabel) # ""
    THEN heldAfterLabelWrite(annotations, index, Trim(tempLabel))
    ELSE annotations

\* an input event whose handler writes to records: held is the array the
\* component held before the event, as it reads after the handler
EventHeld(t, p, held) ==
  /\ blurPending => t = "blur"
  /\ events < MaxEvents
  /\ events' = events + 1
  /\ ev' = [type |-> t, pos |-> p, during |-> Phase, held |-> held]

startLabelEdit(index) ==
  /\ index \in 1..Len(annotations)
  /\ editingLabel = NoIndex
  /\ selectedAnnotation = index
  /\ editingLabel' = index
  /\ tempLabel' = annotations[index].label
  /\ Event("startLabelEdit", Null)
  /\ NoNotify
  /\ UNCHANGED <<selectedTool, annotations, isDrawing, startPoint, currentRect,
                 selectedAnnotation, image, scale, imageOffset, isEditing,
                 editMode, resizeHandle, dragStart, originalAnnotation,
                 imageUrl, loading, now>>

setTempLabel(s) ==
  /\ editingLabel # NoIndex
  /\ tempLabel' = s
  /\ Event("input", Null)
  /\ NoNotify
  /\ UNCHANGED <<selectedTool, annotations, isDrawing, startPoint, currentRect,
                 selectedAnnotation, image, scale, imageOffset, isEditing,
                 editMode, resizeHandle, dragStart, originalAnnotation,
                 editingLabel, imageUrl, loading, now>>

saveLabelEdit ==
  /\ editingLabel # NoIndex
  /\ SaveEffect(editingLabel)
  /\ EventHeld("saveLabelEdit", Null, heldAfterSave(editingLabel))
  /\ UNCHANGED <<selectedTool, isDrawing, startPoint, currentRect,
                 selectedAnnotation, image, scale, imageOffset, isEditing,
                 editMode, resizeHandle, dragStart, originalAnnotation,
                 imageUrl, loading, now>>

\* onBlur of the label input
labelBlur ==
  /\ blurPending
  /\ SaveEffect(editingLabel)
  /\ EventHeld("blur", Null, heldAfterSave(editingLabel))
  /\ UNCHANGED <<selectedTool, isDrawing, startPoint, currentRect,
                 selectedAnnotation, image, scale, imageOffset, isEditing,
                 editMode, resizeHandle, dragStart, originalAnnotation,
                 imageUrl, loading, now>>

\* variant: Escape in the label input stores the buffer like Enter
cancelLabelEdit_Saves ==
  /\ editingLabel # NoIndex
  /\ SaveEffect(editingLabel)
  /\ Event("cancelLabelEdit", Null)
  /\ UNCHANGED <<selectedTool, isDrawing, startPoint, currentRect,
                 selectedAnnotation, image, scale, imageOffset, isEditing,
                 editMode, resizeHandle, dragStart, originalAnnotation,
                 imageUrl, loading, now>>

cancelLabelEdit ==
  /\ editingLabel # NoIndex
  /\ editingLabel' = NoIndex
  /\ tempLabel' = ""
  /\ Event("cancelLabelEdit", Null)
  /\ NoNotify
  /\ UNCHANGED <<selectedTool, annotations, isDrawing, startPoint, currentRect,
                 selectedAnnotation, image, scale, imageOffset, isEditing,
                 editMode, resizeHandle, dragStart, originalAnnotation,
                 imageUrl, loading, now>>

----------------------------------------------------------------------------
(* Pointer handlers *)

inputFocused == editingLabel # NoIndex

\* variant: the press that selects an annotation also starts moving it
handleMouseDown_SelectAndDrag(p) ==
  LET canvasPos == getCanvasMousePos(p)
      clicked   == findAnnotationAt(annotations, canvasPos)
      handle    == IF clicked # NoIndex
                     THEN getResizeHandle(canvasPos, annotations[clicked], clicked)
                     ELSE "null"
  IN
  /\ IF selectedTool = "select"
       THEN IF clicked # NoIndex
              THEN IF selectedAnnotation = clicked
                     THEN /\ isEditing' = TRUE
                          /\ editMode' = IF handle # "null" THEN "resize" ELSE "move"
                          /\ resizeHandle' = IF handle # "null" THEN handle ELSE resizeHandle
                          /\ dragStart' = canvasPos
                          /\ originalAnnotation' = annotations[clicked]
                          /\ UNCHANGED <<selectedAnnotation, isDrawing, startPoint,
                                         currentRect>>
                     ELSE /\ selectedAnnotation' = clicked
                          /\ isEditing' = TRUE
                          /\ editMode' = "move"
                          /\ dragStart' = canvasPos
                          /\ originalAnnotation' = annotations[clicked]
                          /\ UNCHANGED <<resizeHandle, isDrawing, startPoint,
                                         currentRect>>
              ELSE /\ selectedAnnotation' = NoIndex
                   /\ UNCHANGED <<isEditing, editMode, resizeHandle, dragStart,
                                  originalAnnotation, isDrawing, startPoint,
                                  currentRect>>
       ELSE /\ isDrawing' = TRUE
            /\ startPoint' = canvasPos
            /\ currentRect' = [x |-> canvasPos.x, y |-> canvasPos.y,
                               width |-> 0, height |-> 0]
            /\ selectedAnnotation' = NoIndex
            /\ UNCHANGED <<isEditing, editMode, resizeHandle, dragStart,
                           originalAnnotation>>
  /\ NoNotify
  /\ Event("mousedown", p)
  /\ UNCHANGED <<selectedTool, annotations, image, scale, imageOffset,
                 editingLabel, tempLabel, imageUrl, loading, now>>

handleMouseDown(p) ==
  LET canvasPos == getCanvasMousePos(p)
      clicked   == findAnnotationAt(annotations, canvasPos)
      handle    == IF clicked # NoIndex
                     THEN getResizeHandle(canvasPos, annotations[clicked], clicked)
                     ELSE "null"
  IN
  /\ IF selectedTool = "select"
       THEN IF clicked # NoIndex
              THEN IF selectedAnnotation = clicked
                     THEN /\ isEditing' = TRUE
                          /\ editMode' = IF handle # "null" THEN "resize" ELSE "move"
                          /\ resizeHandle' = IF handle # "null" THEN handle ELSE resizeHandle
                          /\ dragStart' = canvasPos
                          /\ originalAnnotation' = annotations[clicked]
                          /\ UNCHANGED <<selectedAnnotation, isDrawing, startPoint,
                                         currentRect>>
                     ELSE /\ selectedAnnotation' = clicked
                          /\ UNCHANGED <<isEditing, editMode, resizeHandle, dragStart,
                                         originalAnnotation, isDrawing, startPoint,
                                         currentRect>>
              ELSE /\ selectedAnnotation' = NoIndex
                   /\ UNCHANGED <<isEditing, editMode, resizeHandle, dragStart,
                                  originalAnnotation, isDrawing, startPoint,
                                  currentRect>>
       ELSE /\ isDrawing' = TRUE
            /\ startPoint' = canvasPos
            /\ currentRect' = [x |-> canvasPos.x, y |-> canvasPos.y,
                               width |-> 0, height |-> 0]
            /\ selectedAnnotation' = NoIndex
            /\ UNCHANGED <<isEditing, editMode, resizeHandle, dragStart,
                           originalAnnotation>>
  /\ NoNotify
  /\ Event("mousedown", p)
  /\ UNCHANGED <<selectedTool, annotations, image, scale, imageOffset,
                 editingLabel, tempLabel, imageUrl, loading, now>>

\* the switch over resizeHandle
\* variant: the ne handle changes the height without moving the top edge
ResizeGeom_NeDrift(o, h, dx, dy) ==
  CASE h = "nw" -> [x |-> o.x + dx, y |-> o.y + dy, width |-> o.width - dx, height |-> o.height - dy]
    [] h = "ne" -> [x |-> o.x,      y |-> o.y,      width |-> o.width + dx, height |-> o.height - dy]
    [] h = "sw" -> [x |-> o.x + dx, y |-> o.y,      width |-> o.width - dx, height |-> o.height + dy]
    [] h = "se" -> [x |-> o.x,      y |-> o.y,      width |-> o.width + dx, height |-> o.height + dy]
    [] h = "n"  -> [x |-> o.x,      y |-> o.y + dy, width |-> o.width,      height |-> o.height - dy]
    [] h = "s"  -> [x |-> o.x,      y |-> o.y,      width |-> o.width,      height |-> o.height + dy]
    [] h = "w"  -> [x |-> o.x + dx, y |-> o.y,      width |-> o.width - dx, height |-> o.height]
    [] h = "e"  -> [x |-> o.x,      y |-> o.y,      width |-> o.width + dx, height |-> o.height]

ResizeGeom(o, h, dx, dy) ==
  CASE h = "nw" -> [x |-> o.x + dx, y |-> o.y + dy, width |-> o.width - dx, height |-> o.height - dy]
    [] h = "ne" -> [x |-> o.x,      y |-> o.y + dy, width |-> o.width + dx, height |-> o.height - dy]
    [] h = "sw" -> [x |-> o.x + dx, y |-> o.y,      width |-> o.width - dx, height |-> o.height + dy]
    [] h = "se" -> [x |-> o.x,      y |-> o.y,      width |-> o.width + dx, height |-> o.height + dy]
    [] h = "n"  -> [x |-> o.x,      y |-> o.y + dy, width |-> o.width,      height |-> o.height - dy]
    [] h = "s"  -> [x |-> o.x,      y |-> o.y,      width |-> o.width,      height |-> o.height + dy]
    [] h = "w"  -> [x |-> o.x + dx, y |-> o.y,      width |-> o.width - dx, height |-> o.height]
    [] h = "e"  -> [x |-> o.x,      y |-> o.y,      width |-> o.width + dx, height |-> o.height]

\* variant: the resize frame is written without the minimum-size test
EditFrame_NoMinSize(o, mode, h, dx, dy) ==
  IF mode = "move"
    THEN [o EXCEPT !.x = o.x + dx, !.y = o.y + dy]
  ELSE IF mode = "resize" /\ h # "null"
    THEN LET g == ResizeGeom(o, h, dx, dy)
         IN  [o EXCEPT !.x = g.x, !.y = g.y,
                       !.width = g.width, !.height = g.height]
  ELSE o

\* the annotation one frame of a move or resize writes: a copy of the
\* snapshot o, changed by the frame
EditFrame(o, mode, h, dx, dy) ==
  IF mode = "move"
    THEN [o EXCEPT !.x = o.x + dx, !.y = o.y + dy]
  ELSE IF mode = "resize" /\ h # "null"
    THEN LET g == ResizeGeom(o, h, dx, dy)
         IN  IF g.width > minSize /\ g.height > minSize
               THEN [o EXCEPT !.x = g.x, !.y = g.y,
                              !.width = g.width, !.height = g.height]
               ELSE o
  ELSE o

\* the rectangle a pointer-move of a draw gesture stores
DrawRect(start, imagePos) ==
  LET startImagePos == [x |-> DivScale(start.x - imageOffset.x),
                        y |-> DivScale(start.y - imageOffset.y)]
  IN  [x      |-> Min(imagePos.x, startImagePos.x),
       y      |-> Min(imagePos.y, startImagePos.y),
       width  |-> Abs(imagePos.x - startImagePos.x),
       height |-> Abs(imagePos.y - startImagePos.y)]

\* variant: a frame that changes nothing is not reported
handleMouseMove_SkipUnchanged(p) ==
  LET canvasPos == getCanvasMousePos(p) IN
  /\ IF isEditing /\ selectedAnnotation # NoIndex /\ dragStart # Null
        /\ originalAnnotation # Null
       THEN LET deltaX == DivScale(canvasPos.x - dragStart.x)
                deltaY == DivScale(canvasPos.y - dragStart.y)
                annotation == EditFrame(originalAnnotation, editMode,
                                        resizeHandle, deltaX, deltaY)
            IN  /\ annotations' = [annotations EXCEPT ![selectedAnnotation] = annotation]
                /\ IF annotations' # annotations
                     THEN Notify(annotations')
                     ELSE NoNotify
                /\ UNCHANGED currentRect
       ELSE IF ~isDrawing \/ startPoint = Null \/ selectedTool # "bbox"
         THEN /\ NoNotify
              /\ UNCHANGED <<annotations, currentRect>>
         ELSE /\ currentRect' = DrawRect(startPoint, getImageMousePos(p))
              /\ NoNotify
              /\ UNCHANGED annotations
  /\ Event("mousemove", p)
  /\ UNCHANGED <<selectedTool, isDrawing, startPoint, selectedAnnotation, image,
                 scale, imageOffset, isEditing, editMode, resizeHandle,
                 dragStart, originalAnnotation, editingLabel, tempLabel,
                 imageUrl, loading, now>>

handleMouseMove(p) ==
  LET canvasPos == getCanvasMousePos(p) IN
  /\ IF isEditing /\ selectedAnnotation # NoIndex /\ dragStart # Null
        /\ originalAnnotation # Null
       THEN LET deltaX == DivScale(canvasPos.x - dragStart.x)
                deltaY == DivScale(canvasPos.y - dragStart.y)
                annotation == EditFrame(originalAnnotation, editMode,
                                        resizeHandle, deltaX, deltaY)
            IN  /\ annotations' = [annotations EXCEPT ![selectedAnnotation] = annotation]
                /\ Notify(annotations')
                /\ UNCHANGED currentRect
       ELSE IF ~isDrawing \/ startPoint = Null \/ selectedTool # "bbox"
         THEN /\ NoNotify
              /\ UNCHANGED <<annotations, currentRect>>
         ELSE /\ currentRect' = DrawRect(startPoint, getImageMousePos(p))
              /\ NoNotify
              /\ UNCHANGED annotations
  /\ Event("mousemove", p)
  /\ UNCHANGED <<selectedTool, isDrawing, startPoint, selectedAnnotation, image,
                 scale, imageOffset, isEditing, editMode, resizeHandle,
                 dragStart, originalAnnotation, editingLabel, tempLabel,
                 imageUrl, loading, now>>

\* variant: the label counts the annotations before the insertion
NewLabel_CountBefore(n) == "Object " \o ToString(n - 1)

\* the default label `Object ${n}`
NewLabel(n) == "Object " \o ToString(n)

\* variant: a rectangle of exactly the minimum size is committed
AcceptRect_Inclusive(r) == r.width >= minSize /\ r.height >= minSize

\* the size test of the commit
AcceptRect(r) == r.width > minSize /\ r.height > minSize

\* variant: the list is reported once more when an edit gesture is released
handleMouseUp_NotifyOnRelease ==
  /\ IF isEditing
       THEN /\ isEditing' = FALSE
            /\ editMode' = "null"
            /\ resizeHandle' = "null"
            /\ dragStart' = Null
            /\ originalAnnotation' = Null
            /\ Notify(annotations)
            /\ UNCHANGED <<annotations, isDrawing, currentRect, startPoint, now>>
       ELSE IF ~isDrawing \/ currentRect = Null \/ selectedTool # "bbox"
         THEN /\ NoNotify
              /\ UNCHANGED <<annotations, isDrawing, currentRect, startPoint, now,
                             isEditing, editMode, resizeHandle, dragStart,
                             originalAnnotation>>
         ELSE /\ isDrawing' = FALSE
              /\ IF AcceptRect(currentRect)
                   THEN /\ now' \in now..MaxClock
                        /\ annotations' = Append(annotations,
                              Ann(now', currentRect.x, currentRect.y,
                                  currentRect.width, currentRect.height,
                                  NewLabel(Len(annotations) + 1)))
                        /\ Notify(annotations')
                   ELSE /\ NoNotify
                        /\ UNCHANGED <<annotations, now>>
              /\ currentRect' = Null
              /\ startPoint' = Null
              /\ UNCHANGED <<isEditing, editMode, resizeHandle, dragStart,
                             originalAnnotation>>
  /\ Event("mouseup", Null)
  /\ UNCHANGED <<selectedTool, selectedAnnotation, image, scale, imageOffset,
                 editingLabel, tempLabel, imageUrl, loading>>

handleMouseUp ==
  /\ IF isEditing
       THEN /\ isEditing' = FALSE
            /\ editMode' = "null"
            /\ resizeHandle' = "null"
            /\ dragStart' = Null
            /\ originalAnnotation' = Null
            /\ NoNotify
            /\ UNCHANGED <<annotations, isDrawing, currentRect, startPoint, now>>
       ELSE IF ~isDrawing \/ currentRect = Null \/ selectedTool # "bbox"
         THEN /\ NoNotify
              /\ UNCHANGED <<annotations, isDrawing, currentRect, startPoint, now,
                             isEditing, editMode, resizeHandle, dragStart,
                             originalAnnotation>>
         ELSE /\ isDrawing' = FALSE
              /\ IF AcceptRect(currentRect)
                   THEN /\ now' \in now..MaxClock
                        /\ annotations' = Append(annotations,
                              Ann(now', currentRect.x, currentRect.y,
                                  currentRect.width, currentRect.height,
                                  NewLabel(Len(annotations) + 1)))
                        /\ Notify(annotations')
                   ELSE /\ NoNotify
                        /\ UNCHANGED <<annotations, now>>
              /\ currentRect' = Null
              /\ startPoint' = Null
              /\ UNCHANGED <<isEditing, editMode, resizeHandle, dragStart,
                             originalAnnotation>>
  /\ Event("mouseup", Null)
  /\ UNCHANGED <<selectedTool, selectedAnnotation, image, scale, imageOffset,
                 editingLabel, tempLabel, imageUrl, loading>>

----------------------------------------------------------------------------
(* Keyboard handler and toolbar *)

\* variant: the last annotation is removed, whichever one is selected
RemoveAt_Last(anns, i) ==
  [k \in 1..(Len(anns) - 1) |-> anns[k]]

\* annotations.filter((_, index) => index !== i)
RemoveAt(anns, i) ==
  [k \in 1..(Len(anns) - 1) |-> IF k < i THEN anns[k] ELSE anns[k + 1]]

\* variant: the list before the removal is reported
DeleteEffect_StaleNotify ==
  IF selectedAnnotation = NoIndex
    THEN /\ NoNotify
         /\ UNCHANGED <<annotations, selectedAnnotation>>
    ELSE /\ annotations' = RemoveAt(annotations, selectedAnnotation)
         /\ Notify(annotations)
         /\ selectedAnnotation' = NoIndex

DeleteEffect ==
  IF selectedAnnotation = NoIndex
    THEN /\ NoNotify
         /\ UNCHANGED <<annotations, selectedAnnotation>>
    ELSE /\ annotations' = RemoveAt(annotations, selectedAnnotation)
         /\ Notify(annotations')
         /\ selectedAnnotation' = NoIndex

\* variant: the removal leaves the selection where it was
deleteSelected_KeepSelection ==
  /\ ~inputFocused
  /\ selectedAnnotation # NoIndex
  /\ annotations' = RemoveAt(annotations, selectedAnnotation)
  /\ Notify(annotations')
  /\ Event("deleteSelected", Null)
  /\ UNCHANGED <<selectedTool, isDrawing, startPoint, currentRect, image, scale,
                 imageOffset, isEditing, editMode, resizeHandle, dragStart,
                 originalAnnotation, editingLabel, tempLabel, imageUrl, loading,
                 now, selectedAnnotation>>

\* the toolbar button, disabled while nothing is selected
deleteSelected ==
  /\ ~inputFocused
  /\ selectedAnnotation # NoIndex
  /\ DeleteEffect
  /\ Event("deleteSelected", Null)
  /\ UNCHANGED <<selectedTool, isDrawing, startPoint, currentRect, image, scale,
                 imageOffset, isEditing, editMode, resizeHandle, dragStart,
                 originalAnnotation, editingLabel, tempLabel, imageUrl, loading, now>>

\* case 'Delete', 'Backspace'
KeyDelete ==
  /\ IF inputFocused
       THEN /\ NoNotify
            /\ UNCHANGED <<annotations, selectedAnnotation>>
       ELSE DeleteEffect
  /\ Event("keyDelete", Null)
  /\ UNCHANGED <<selectedTool, isDrawing, startPoint, currentRect, image, scale,
                 imageOffset, isEditing, editMode, resizeHandle, dragStart,
                 originalAnnotation, editingLabel, tempLabel, imageUrl, loading, now>>

\* variant: Escape writes the snapshot of the gesture back into the list
KeyEscape_Revert ==
  /\ IF inputFocused
       THEN UNCHANGED <<selectedAnnotation, isEditing, editMode, resizeHandle,
                        dragStart, originalAnnotation, annotations>>
       ELSE /\ annotations' =
                 IF isEditing /\ selectedAnnotation # NoIndex
                    /\ originalAnnotation # Null
                   THEN [annotations EXCEPT ![selectedAnnotation] = originalAnnotation]
                   ELSE annotations
            /\ selectedAnnotation' = NoIndex
            /\ isEditing' = FALSE
            /\ editMode' = "null"
            /\ resizeHandle' = "null"
            /\ dragStart' = Null
            /\ originalAnnotation' = Null
  /\ NoNotify
  /\ Event("keyEscape", Null)
  /\ UNCHANGED <<selectedTool, isDrawing, startPoint, currentRect,
                 image, scale, imageOffset, editingLabel, tempLabel, imageUrl, loading,
                 now>>

\* case 'Escape'
KeyEscape ==
  /\ IF inputFocused
       THEN UNCHANGED <<selectedAnnotation, isEditing, editMode, resizeHandle,
                        dragStart, originalAnnotation>>
       ELSE /\ selectedAnnotation' = NoIndex
            /\ isEditing' = FALSE
            /\ editMode' = "null"
            /\ resizeHandle' = "null"
            /\ dragStart' = Null
            /\ originalAnnotation' = Null
  /\ NoNotify
  /\ Event("keyEscape", Null)
  /\ UNCHANGED <<selectedTool, annotations, isDrawing, startPoint, currentRect,
                 image, scale, imageOffset, editingLabel, tempLabel, imageUrl, loading,
                 now>>

\* variant: the tool-toggle key is handled while the label input has focus
KeySpace_Unguarded ==
  /\ selectedTool' = IF selectedTool = "select" THEN "bbox" ELSE "select"
  /\ NoNotify
  /\ Event("keySpace", Null)
  /\ UNCHANGED <<annotations, isDrawing, startPoint, currentRect,
                 selectedAnnotation, image, scale, imageOffset, isEditing,
                 editMode, resizeHandle, dragStart, originalAnnotation,
                 editingLabel, tempLabel, imageUrl, loading, now>>

\* case ' '
KeySpace ==
  /\ IF inputFocused
       THEN UNCHANGED selectedTool
       ELSE selectedTool' = IF selectedTool = "select" THEN "bbox" ELSE "select"
  /\ NoNotify
  /\ Event("keySpace", Null)
  /\ UNCHANGED <<annotations, isDrawing, startPoint, currentRect,
                 selectedAnnotation, image, scale, imageOffset, isEditing,
                 editMode, resizeHandle, dragStart, originalAnnotation,
                 editingLabel, tempLabel, imageUrl, loading, now>>

\* the two tool buttons
setSelectedTool(t) ==
  /\ ~inputFocused
  /\ selectedTool' = t
  /\ NoNotify
  /\ Event("toolButton", Null)
  /\ UNCHANGED <<annotations, isDrawing, startPoint, currentRect,
                 selectedAnnotation, image, scale, imageOffset, isEditing,
                 editMode, resizeHandle, dragStart, originalAnnotation,
                 editingLabel, tempLabel, imageUrl, loading, now>>

\* variant: the list as it was before the clear is reported
clearAll_ReportsOldList ==
  /\ ~inputFocused
  /\ annotations' = <<>>
  /\ Notify(annotations)
  /\ selectedAnnotation' = NoIndex
  /\ Event("clearAll", Null)
  /\ UNCHANGED <<selectedTool, isDrawing, startPoint, currentRect, image, scale,
                 imageOffset, isEditing, editMode, resizeHandle, dragStart,
                 originalAnnotation, editingLabel, tempLabel, imageUrl, loading, now>>

clearAll ==
  /\ ~inputFocused
  /\ annotations' = <<>>
  /\ Notify(<<>>)
  /\ selectedAnnotation' = NoIndex
  /\ Event("clearAll", Null)
  /\ UNCHANGED <<selectedTool, isDrawing, startPoint, currentRect, image, scale,
                 imageOffset, isEditing, editMode, resizeHandle, dragStart,
                 originalAnnotation, editingLabel, tempLabel, imageUrl, loading, now>>

\* a click on a row of the annotation list
rowClick(index) ==
  /\ index \in 1..Len(annotations)
  /\ editingLabel \in {NoIndex, index}
  /\ selectedAnnotation' = index
  /\ NoNotify
  /\ Event("rowClick", Null)
  /\ UNCHANGED <<selectedTool, annotations, isDrawing, startPoint, currentRect,
                 image, scale, imageOffset, isEditing, editMode, resizeHandle,
                 dragStart, originalAnnotation, editingLabel, tempLabel,
                 imageUrl, loading, now>>

----------------------------------------------------------------------------

Next ==
  \/ ImageOnload
  \/ \E p \in Points : handleMouseDown(p)
  \/ \E p \in Points : handleMouseMove(p)
  \/ handleMouseUp
  \/ KeyDelete
  \/ KeyEscape
  \/ KeySpace
  \/ deleteSelected
  \/ clearAll
  \/ \E t \in {"select", "bbox"} : setSelectedTool(t)
  \/ \E i \in 1..Len(annotations) : rowClick(i)
  \/ \E i \in 1..Len(annotations) : startLabelEdit(i)
  \/ \E s \in LabelInputs : setTempLabel(s)
  \/ saveLabelEdit
  \/ labelBlur
  \/ cancelLabelEdit

Spec == Init /\ [][Next]_vars

TypeOK ==
  /\ selectedAnnotation \in 0..Len(annotations)
  /\ editingLabel \in 0..Len(annotations)

----------------------------------------------------------------------------
(* Host: the parent renders the component again with other props *)

\* image sizes for which the scaled size and the offsets are integers: the
\* width limits the scale, the height limits it, both do, neither does
ViewportImages == { [width |-> 1520, height |-> 600],
                    [width |-> 700,  height |-> 1120],
                    [width |-> 1140, height |-> 840],
                    [width |-> 3040, height |-> 2240],
                    [width |-> 760,  height |-> 560],
                    [width |-> 400,  height |-> 300],
                    [width |-> 2,    height |-> 2] }

\* the props of a later render
HostLists == { <<>>, <<SeedB>> }
HostImages == { [width |-> 400, height |-> 300], [width |-> 700, height |-> 1120] }

\* variant: the component takes the list of every render as its annotations
hostRender_Reseed(list, url) ==
  /\ ~blurPending
  /\ events < MaxEvents
  /\ events' = events + 1
  /\ ev' = [type |-> "hostRender", pos |-> Null, during |-> Phase,
            initialAnnotations |-> list]
  /\ imageUrl' = url
  /\ loading' = IF url # imageUrl THEN loading \cup {url} ELSE loading
  /\ annotations' = list
  /\ selectedAnnotation' = NoIndex
  /\ NoNotify
  /\ UNCHANGED <<selectedTool, isDrawing, startPoint, currentRect,
                 image, scale, imageOffset, isEditing,
                 editMode, resizeHandle, dragStart, originalAnnotation,
                 editingLabel, tempLabel, now>>

\* a render with the props initialAnnotations = list and imageUrl = url:
\* useState ignores the list, the image effect runs again when the url differs
hostRender(list, url) ==
  /\ ~blurPending
  /\ events < MaxEvents
  /\ events' = events + 1
  /\ ev' = [type |-> "hostRender", pos |-> Null, during |-> Phase,
            initialAnnotations |-> list]
  /\ imageUrl' = url
  /\ loading' = IF url # imageUrl THEN loading \cup {url} ELSE loading
  /\ NoNotify
  /\ UNCHANGED <<selectedTool, annotations, isDrawing, startPoint, currentRect,
                 selectedAnnotation, image, scale, imageOffset, isEditing,
                 editMode, resizeHandle, dragStart, originalAnnotation,
                 editingLabel, tempLabel, now>>

InitHost ==
  /\ selectedTool = "select"
  /\ annotations \in InitialLists
  /\ isDrawing = FALSE
  /\ startPoint = Null
  /\ currentRect = Null
  /\ selectedAnnotation = NoIndex
  /\ image = Null
  /\ scale = [n |-> 1, d |-> 1]
  /\ imageOffset = Pt(0, 0)
  /\ isEditing = FALSE
  /\ editMode = "null"
  /\ resizeHandle = "null"
  /\ dragStart = Null
  /\ originalAnnotation = Null
  /\ editingLabel = NoIndex
  /\ tempLabel = ""
  /\ imageUrl \in ViewportImages
  /\ loading = {imageUrl}
  /\ now = 0
  /\ lastNotified = {}
  /\ notified = 0
  /\ ev = [type |-> "init", pos |-> Null, during |-> "Idle"]
  /\ events = 0

NextHost ==
  \/ ImageOnload
  \/ \E list \in HostLists : \E url \in HostImages : hostRender(list, url)
  \/ \E i \in 1..Len(annotations) : rowClick(i)
  \/ KeyDelete
  \/ clearAll

SpecHost == InitHost /\ [][NextHost]_vars

----------------------------------------------------------------------------
(* Label editor alone: rows, the label input, the keys and presses on the
   canvas before the image has loaded *)

LabelTexts == { "", " ", " cat ", "dog" }

LabelPoints == { Pt(10, 60), Pt(40, 170) }

\* onChange of the label input
labelInput(s) == setTempLabel(s)

NextLabels ==
  \/ \E i \in 1..Len(annotations) : rowClick(i)
  \/ \E i \in 1..Len(annotations) : startLabelEdit(i)
  \/ \E s \in LabelTexts : labelInput(s)
  \/ saveLabelEdit
  \/ labelBlur
  \/ cancelLabelEdit
  \/ \E p \in LabelPoints : handleMouseDown(p)
  \/ KeyDelete
  \/ KeyEscape
  \/ KeySpace

SpecLabels == Init /\ [][NextLabels]_vars

----------------------------------------------------------------------------
(* Move and resize frames: the component right after a press on its selected
   annotation, at each handle and inside the box, followed by the
   pointer-moves and the pointer-up of that gesture *)

FrameAnn == Ann(-1, 20, 20, 40, 40, "A")

FrameImages == { [width |-> 1520, height |-> 600],
                 [width |-> 400, height |-> 300] }

\* device deltas of the pointer-moves, relative to the press
FrameDeltas == { Pt(20, 10), Pt(0, 0), Pt(-10, -20), Pt(60, 60), Pt(-60, -60) }

\* the device point at the centre of the hotspot of h, the centre of the
\* box when h is no handle
PressPoint(h, a) ==
  IF h = "null"
    THEN Pt((DevX(a.x) + scale.n * a.width) \div K,
            (DevY(a.y) + scale.n * a.height) \div K)
    ELSE Pt((HandleX(h, a) + (handleSize \div 2) * K) \div K,
            (HandleY(h, a) + (handleSize \div 2) * K) \div K)

InitFrames ==
  /\ selectedTool = "select"
  /\ annotations = <<FrameAnn>>
  /\ isDrawing = FALSE
  /\ startPoint = Null
  /\ currentRect = Null
  /\ selectedAnnotation = 1
  /\ imageUrl \in FrameImages
  /\ image \in {Null, imageUrl}
  /\ loading = IF image = Null THEN {imageUrl} ELSE {}
  /\ scale = IF image = Null THEN [n |-> 1, d |-> 1] ELSE NewScale(image)
  /\ imageOffset = IF image = Null THEN Pt(0, 0) ELSE NewOffset(image, scale)
  /\ isEditing = TRUE
  /\ resizeHandle \in {HandleOrder[k] : k \in 1..Len(HandleOrder)} \cup {"null"}
  /\ editMode = IF resizeHandle = "null" THEN "move" ELSE "resize"
  /\ dragStart = PressPoint(resizeHandle, FrameAnn)
  /\ findAnnotationAt(annotations, dragStart) = 1
  /\ getResizeHandle(dragStart, FrameAnn, 1) = resizeHandle
  /\ originalAnnotation = FrameAnn
  /\ editingLabel = NoIndex
  /\ tempLabel = ""
  /\ now = 0
  /\ lastNotified = {}
  /\ notified = 0
  /\ ev = [type |-> "mousedown", pos |-> dragStart, during |-> "Idle"]
  /\ events = 0

\* a pointer-move of the gesture, d away from the press
frameMouseMove(d) ==
  /\ dragStart # Null
  /\ handleMouseMove(Pt(dragStart.x + d.x, dragStart.y + d.y))

NextFrames ==
  \/ ImageOnload
  \/ \E d \in FrameDeltas : frameMouseMove(d)
  \/ handleMouseUp

SpecFrames == InitFrames /\ [][NextFrames]_vars

----------------------------------------------------------------------------
(* Handle test: the component seeded with one annotation, large or of nearly
   the minimum size, and presses on and around the hotspots of its top-left
   corner *)

HandleBoxes == { Ann(-1, 20, 20, 40, 40, "A"), Ann(-1, 20, 20, 12, 12, "A") }

\* device offsets of the presses from the top-left corner of the device box
ProbeOffsets == { Pt(dx, dy) : dx \in {-7, -6, 0, 6, 7}, dy \in {-7, -6, 0, 6, 7} }

\* the device point d away from the top-left corner of the device box of a
ProbeAt(a, d) == Pt(DevX(a.x) \div K + d.x, DevY(a.y) \div K + d.y)

InitHandles ==
  /\ selectedTool = "select"
  /\ \E a \in HandleBoxes : annotations = <<a>>
  /\ isDrawing = FALSE
  /\ startPoint = Null
  /\ currentRect = Null
  /\ selectedAnnotation = NoIndex
  /\ image = Null
  /\ scale = [n |-> 1, d |-> 1]
  /\ imageOffset = Pt(0, 0)
  /\ isEditing = FALSE
  /\ editMode = "null"
  /\ resizeHandle = "null"
  /\ dragStart = Null
  /\ originalAnnotation = Null
  /\ editingLabel = NoIndex
  /\ tempLabel = ""
  /\ imageUrl \in FrameImages
  /\ loading = {imageUrl}
  /\ now = 0
  /\ lastNotified = {}
  /\ notified = 0
  /\ ev = [type |-> "init", pos |-> Null, during |-> "Idle"]
  /\ events = 0

\* a press d away from the top-left corner of the annotation's device box
probeMouseDown(d) == handleMouseDown(ProbeAt(annotations[1], d))

NextHandles ==
  \/ ImageOnload
  \/ \E d \in ProbeOffsets : probeMouseDown(d)
  \/ handleMouseUp
  \/ rowClick(1)

SpecHandles == InitHandles /\ [][NextHandles]_vars

----------------------------------------------------------------------------
(* Overlap test: the component seeded with two overlapping annotations, the
   later one covering the bottom-right corner of the earlier one, and presses
   on and around the top-left and bottom-right corners of the earlier one *)

OverlapAnns == << Ann(-1, 20, 20, 40, 40, "A"), Ann(-2, 50, 50, 40, 40, "B") >>

\* device offsets of the presses from the top-left corner of the first box
CornerOffsets == { Pt(-6, -6), Pt(-6, 0), Pt(0, 0), Pt(6, 6), Pt(8, 8) }

\* device offsets of the presses from the bottom-right corner of the first box
FarCornerOffsets == { Pt(-4, -4), Pt(0, 0), Pt(6, 6) }

\* the device point d away from the bottom-right corner of the device box of a
ProbeAtFar(a, d) ==
  Pt((DevX(a.x) + 2 * scale.n * a.width) \div K + d.x,
     (DevY(a.y) + 2 * scale.n * a.height) \div K + d.y)

InitOverlap ==
  /\ selectedTool = "select"
  /\ annotations = OverlapAnns
  /\ isDrawing = FALSE
  /\ startPoint = Null
  /\ currentRect = Null
  /\ selectedAnnotation = NoIndex
  /\ image = Null
  /\ scale = [n |-> 1, d |-> 1]
  /\ imageOffset = Pt(0, 0)
  /\ isEditing = FALSE
  /\ editMode = "null"
  /\ resizeHandle = "null"
  /\ dragStart = Null
  /\ originalAnnotation = Null
  /\ editingLabel = NoIndex
  /\ tempLabel = ""
  /\ imageUrl \in FrameImages
  /\ loading = {imageUrl}
  /\ now = 0
  /\ lastNotified = {}
  /\ notified = 0
  /\ ev = [type |-> "init", pos |-> Null, during |-> "Idle"]
  /\ events = 0

\* a press d away from the top-left corner of the first annotation's device box
cornerMouseDown(d) == handleMouseDown(ProbeAt(annotations[1], d))

\* a press d away from the bottom-right corner of the first annotation's device box
farCornerMouseDown(d) == handleMouseDown(ProbeAtFar(annotations[1], d))

NextOverlap ==
  \/ ImageOnload
  \/ \E d \in CornerOffsets : cornerMouseDown(d)
  \/ \E d \in FarCornerOffsets : farCornerMouseDown(d)
  \/ handleMouseUp
  \/ \E i \in 1..2 : rowClick(i)

SpecOverlap == InitOverlap /\ [][NextOverlap]_vars

----------------------------------------------------------------------------
(* Properties *)

Indices == 1..Len(annotations)

imageWidth == IF image = Null THEN 0 ELSE image.width
imageHeight == IF image = Null THEN 0 ELSE image.height

InBounds(a) ==
  /\ a.x >= 0
  /\ a.y >= 0
  /\ a.x + a.width <= imageWidth
  /\ a.y + a.height <= imageHeight

SameGeometry(a, b) ==
  /\ a.x = b.x
  /\ a.y = b.y
  /\ a.width = b.width
  /\ a.height = b.height

\* C1: once the image is loaded, after a pointer-up that ends a draw, move
\* or resize gesture every annotation of the list lies inside the image:
\* x >= 0, y >= 0, x + width <= imageWidth, y + height <= imageHeight.
C1_InBoundsAfterGesture ==
  (image # Null /\ ev.type = "mouseup" /\ ev.during # "Idle"
     /\ ~isDrawing /\ ~isEditing)
    => \A i \in Indices : InBounds(annotations[i])

\* C2: every annotation of the list has width > minSize and height > minSize
\* (the initial lists hold only such annotations).
C2_MinSize ==
  \A i \in Indices :
    annotations[i].width > minSize /\ annotations[i].height > minSize

\* a resize frame was accepted and shrank the selected annotation
C2_Witness ==
  /\ ev.type = "mousemove"
  /\ ev.during = "Resizing"
  /\ selectedAnnotation # NoIndex
  /\ originalAnnotation # Null
  /\ annotations[selectedAnnotation].width < originalAnnotation.width
  /\ annotations[selectedAnnotation].width > minSize

\* C3: every step that changes the annotation list calls the Change Notifier
\* in that step, every call passes the list the component holds after the
\* step, and so from the first call on the list equals the list last passed.
C3_MutationsNotified ==
  /\ [](lastNotified # {} => lastNotified = {annotations})
  /\ [][ /\ (annotations' # annotations => notified' = 1)
         /\ (notified' = 1 => lastNotified' = {annotations'}) ]_vars

\* a delete removed an annotation and reported the shorter list
C3_Witness ==
  /\ ev.type \in {"keyDelete", "deleteSelected"}
  /\ notified = 1
  /\ lastNotified = {annotations}
  /\ Len(annotations) = 1

\* the greatest index among the annotations whose device box contains p
Covering(anns, p) == { i \in 1..Len(anns) : InBox(p, anns[i]) }

Topmost(anns, p) ==
  IF Covering(anns, p) = {} THEN NoIndex
  ELSE CHOOSE i \in Covering(anns, p) : \A j \in Covering(anns, p) : j <= i

\* C4: a pointer-down in the select tool leaves as selection the annotation
\* of greatest index among those whose device box contains the point, and
\* no selection when no box contains it.
C4_TopmostSelected ==
  [][ (ev'.type = "mousedown" /\ selectedTool = "select")
        => selectedAnnotation' = Topmost(annotations, ev'.pos) ]_vars

\* the point lies in the boxes of the first and the second annotation and
\* the second is selected
C4_Witness ==
  /\ ev.type = "mousedown"
  /\ selectedTool = "select"
  /\ Len(annotations) >= 2
  /\ InBox(ev.pos, annotations[1])
  /\ InBox(ev.pos, annotations[2])
  /\ selectedAnnotation = 2

\* C5: a pointer-up in Drawing whose rectangle has width > minSize and
\* height > minSize appends exactly one annotation with the rectangle's
\* geometry, makes it the selection and calls the Change Notifier once with
\* the list that includes it.
C5_CommitSelectsNew ==
  [][ (/\ ev'.type = "mouseup"
       /\ ev'.during = "Drawing"
       /\ currentRect # Null
       /\ currentRect.width > minSize
       /\ currentRect.height > minSize)
        => (/\ Len(annotations') = Len(annotations) + 1
            /\ SubSeq(annotations', 1, Len(annotations)) = annotations
            /\ SameGeometry(annotations'[Len(annotations')], currentRect)
            /\ selectedAnnotation' = Len(annotations')
            /\ notified' = 1
            /\ lastNotified' = {annotations'}) ]_vars

\* C6: a pointer-up received while a draw gesture is in progress ends it:
\* afterwards the phase is Idle and neither rectangle nor anchor remains,
\* whatever tool toggles and Escapes came since the pointer-down.
C6_PointerUpEndsDraw ==
  [][ (ev'.type = "mouseup" /\ isDrawing)
        => (/\ ~isDrawing'
            /\ ~isEditing'
            /\ currentRect' = Null
            /\ startPoint' = Null) ]_vars

\* C7: after an Escape handled with no text input focused the selection is
\* empty and no gesture state remains: the phase is Idle and anchor,
\* rectangle, handle and snapshot are cleared.
C7_EscapeClearsGesture ==
  (ev.type = "keyEscape" /\ ~inputFocused)
    => (/\ selectedAnnotation = NoIndex
        /\ ~isEditing
        /\ ~isDrawing
        /\ startPoint = Null
        /\ currentRect = Null
        /\ editMode = "null"
        /\ resizeHandle = "null"
        /\ dragStart = Null
        /\ originalAnnotation = Null)

\* C8: an Escape during Moving or Resizing leaves the annotation list as the
\* last drag frame wrote it and calls no Change Notifier.
C8_EscapeKeepsFrames ==
  [][ (ev'.type = "keyEscape" /\ ev'.during \in {"Moving", "Resizing"})
        => (/\ annotations' = annotations
            /\ notified' = 0
            /\ lastNotified' = lastNotified) ]_vars

\* select, press, one frame that moved an annotation of the initial list,
\* Escape: the moved geometry is still in the list
C8_Witness ==
  /\ ev.type = "keyEscape"
  /\ ev.during = "Moving"
  /\ events = 4
  /\ selectedAnnotation = NoIndex
  /\ ~isEditing
  /\ Len(annotations) = 2
  /\ \E i \in Indices : ~SameGeometry(annotations[i], <<SeedA, SeedB>>[i])

\* C9: every draw commit gives the new annotation an id that no annotation
\* already in the list has.
C9_FreshId ==
  [][ (ev'.type = "mouseup" /\ Len(annotations') = Len(annotations) + 1)
        => \A i \in Indices :
             annotations[i].id # annotations'[Len(annotations')].id ]_vars

\* C10: a resize frame whose handle rule gives a width or height not above
\* minSize leaves the geometry of the resized annotation as it was
\* immediately before the frame.
C10_RejectedFrameKeepsPrevious ==
  [][ (/\ ev'.type = "mousemove"
       /\ isEditing
       /\ editMode = "resize"
       /\ resizeHandle # "null"
       /\ selectedAnnotation # NoIndex
       /\ dragStart # Null
       /\ originalAnnotation # Null
       /\ annotations[selectedAnnotation].id = originalAnnotation.id
       /\ LET g == ResizeGeom(originalAnnotation, resizeHandle,
                              DivScale(ev'.pos.x - dragStart.x),
                              DivScale(ev'.pos.y - dragStart.y))
          IN  ~(g.width > minSize /\ g.height > minSize))
        => SameGeometry(annotations'[selectedAnnotation],
                        annotations[selectedAnnotation]) ]_vars


\* C11: a Delete or Backspace key with annotation i selected and no text input
\* focused removes exactly that annotation, keeps the others unchanged and in
\* order, clears the selection and calls the Change Notifier once with the
\* resulting list; with nothing selected it changes nothing and calls nothing.
C11_DeleteRemovesSelected ==
  [][ (ev'.type = "keyDelete" /\ ~inputFocused)
        => IF selectedAnnotation # NoIndex
             THEN /\ annotations' = SubSeq(annotations, 1, selectedAnnotation - 1)
                                      \o SubSeq(annotations, selectedAnnotation + 1,
                                                Len(annotations))
                  /\ selectedAnnotation' = NoIndex
                  /\ notified' = 1
                  /\ lastNotified' = {annotations'}
             ELSE /\ annotations' = annotations
                  /\ selectedAnnotation' = NoIndex
                  /\ notified' = 0
                  /\ lastNotified' = lastNotified ]_vars

\* the middle one of three annotations has just been deleted by the key
C11_Witness ==
  /\ ev.type = "keyDelete"
  /\ notified = 1
  /\ Len(annotations) = 2
  /\ annotations[1] = SeedA
  /\ annotations[2].id >= 0
  /\ selectedAnnotation = NoIndex

\* C12: a pointer-up in Drawing whose rectangle has width <= minSize or
\* height <= minSize (a press and release without a move included) inserts
\* nothing, leaves the list unchanged and calls no Change Notifier.
C12_SmallRectDiscarded ==
  [][ (/\ ev'.type = "mouseup"
       /\ isDrawing
       /\ currentRect # Null
       /\ (currentRect.width <= minSize \/ currentRect.height <= minSize))
        => (/\ annotations' = annotations
            /\ notified' = 0
            /\ lastNotified' = lastNotified) ]_vars

\* a press with the bounding-box tool and its release, with nothing between
C12_Witness ==
  /\ ev.type = "mouseup"
  /\ ev.during = "Drawing"
  /\ events = 3
  /\ selectedTool = "bbox"
  /\ ~isDrawing
  /\ currentRect = Null
  /\ annotations \in InitialLists
  /\ notified = 0


\* C13: in the select tool in Idle, a pointer-down that hits no annotation
\* clears the selection and one that hits an annotation other than the
\* selected one selects it; the phase stays Idle and the list is unchanged;
\* the phase stays Idle until the next pointer-down, and a pointer-move in
\* Idle changes no annotation and calls no Change Notifier.
C13_SelectClickStaysIdle ==
  [][ /\ (/\ ev'.type = "mousedown"
          /\ selectedTool = "select"
          /\ Phase = "Idle"
          /\ \/ Topmost(annotations, ev'.pos) = NoIndex
             \/ Topmost(annotations, ev'.pos) # selectedAnnotation)
           => (/\ selectedAnnotation' = Topmost(annotations, ev'.pos)
               /\ Phase' = "Idle"
               /\ annotations' = annotations
               /\ notified' = 0
               /\ lastNotified' = lastNotified)
      /\ (Phase = "Idle" /\ ev'.type # "mousedown") => Phase' = "Idle"
      /\ (Phase = "Idle" /\ ev'.type = "mousemove")
           => (/\ annotations' = annotations
               /\ notified' = 0
               /\ lastNotified' = lastNotified) ]_vars

\* a pointer-down in Idle has just selected the topmost annotation under the
\* point, which was not the selection before (no move or resize has begun)
C13_Witness ==
  /\ ev.type = "mousedown"
  /\ ev.during = "Idle"
  /\ selectedTool = "select"
  /\ selectedAnnotation # NoIndex
  /\ selectedAnnotation = Topmost(annotations, ev.pos)
  /\ Phase = "Idle"
  /\ notified = 0


HandleNames == {"nw", "ne", "sw", "se", "n", "s", "w", "e"}

\* where a handle sits on the box, in halves of the width and of the height
FracX(h) == CASE h \in {"nw", "sw", "w"} -> 0
              [] h \in {"ne", "se", "e"} -> 2
              [] OTHER                   -> 1
FracY(h) == CASE h \in {"nw", "ne", "n"} -> 0
              [] h \in {"sw", "se", "s"} -> 2
              [] OTHER                   -> 1

\* p lies in the 12x12 device square centred on the corner or edge midpoint
\* of a's device box that h names; device lengths are multiplied by
\* 2 * scale.d so that the comparison is exact
InHotspot(p, h, a) ==
  LET m  == 2 * scale.d
      cx == m * imageOffset.x + scale.n * (2 * a.x + FracX(h) * a.width)
      cy == m * imageOffset.y + scale.n * (2 * a.y + FracY(h) * a.height)
  IN  /\ Abs(m * p.x - cx) <= 6 * m
      /\ Abs(m * p.y - cy) <= 6 * m

\* C14: in the select tool in Idle, a pointer-down that hits the selected
\* annotation enters Resizing with a handle whose hotspot contains the point
\* if there is one, and Moving otherwise; the anchor is the pointer-down
\* point, the snapshot is the annotation as stored at that moment, and the
\* list, the selection and the Change Notifier are left alone.
C14_PressOnSelected ==
  [][ (/\ ev'.type = "mousedown"
       /\ selectedTool = "select"
       /\ Phase = "Idle"
       /\ selectedAnnotation # NoIndex
       /\ Topmost(annotations, ev'.pos) = selectedAnnotation)
        => LET a   == annotations[selectedAnnotation]
               hit == \E h \in HandleNames : InHotspot(ev'.pos, h, a)
           IN  /\ Phase' = IF hit THEN "Resizing" ELSE "Moving"
               /\ hit => /\ resizeHandle' \in HandleNames
                         /\ InHotspot(ev'.pos, resizeHandle', a)
               /\ dragStart' = ev'.pos
               /\ originalAnnotation' = a
               /\ annotations' = annotations
               /\ selectedAnnotation' = selectedAnnotation
               /\ notified' = 0
               /\ lastNotified' = lastNotified ]_vars

\* a pointer-down in Idle has just started a resize of the selected annotation
\* at a handle whose hotspot contains the point
C14_Witness ==
  /\ ev.type = "mousedown"
  /\ ev.during = "Idle"
  /\ Phase = "Resizing"
  /\ selectedAnnotation # NoIndex
  /\ dragStart = ev.pos
  /\ originalAnnotation = annotations[selectedAnnotation]
  /\ InHotspot(ev.pos, resizeHandle, originalAnnotation)


\* (cur - anchor) / scale, per axis
FrameDelta(cur, anchor) ==
  [x |-> ((cur.x - anchor.x) * scale.d) \div scale.n,
   y |-> ((cur.y - anchor.y) * scale.d) \div scale.n]

\* the edges of the snapshot o after handle h has been dragged by d: only the
\* edges the handle names move
Left(o, h, d)   == IF h \in {"nw", "sw", "w"} THEN o.x + d.x ELSE o.x
Right(o, h, d)  == IF h \in {"ne", "se", "e"} THEN o.x + o.width + d.x
                                               ELSE o.x + o.width
Top(o, h, d)    == IF h \in {"nw", "ne", "n"} THEN o.y + d.y ELSE o.y
Bottom(o, h, d) == IF h \in {"sw", "se", "s"} THEN o.y + o.height + d.y
                                               ELSE o.y + o.height

\* C15: an accepted pointer-move in Resizing stores the snapshot with the
\* edges that the handle names moved by (cur - anchor) / scale and the
\* opposite edges where the snapshot had them.
C15_ResizeRule ==
  [][ (/\ ev'.type = "mousemove"
       /\ Phase = "Resizing"
       /\ selectedAnnotation # NoIndex)
        => LET o == originalAnnotation
               h == resizeHandle
               d == FrameDelta(ev'.pos, dragStart)
               r == annotations'[selectedAnnotation]
           IN  (/\ Right(o, h, d) - Left(o, h, d) > minSize
                /\ Bottom(o, h, d) - Top(o, h, d) > minSize)
                 => (/\ r.x = Left(o, h, d)
                     /\ r.x + r.width = Right(o, h, d)
                     /\ r.y = Top(o, h, d)
                     /\ r.y + r.height = Bottom(o, h, d)) ]_vars

\* at scale 1 the se handle has been dragged by (+20, +10): the width has
\* grown by 20, the height by 10, x and y are the snapshot's
C15_Witness ==
  /\ ev.type = "mousemove"
  /\ Phase = "Resizing"
  /\ resizeHandle = "se"
  /\ scale = [n |-> 1, d |-> 1]
  /\ image # Null
  /\ ev.pos = Pt(dragStart.x + 20, dragStart.y + 10)
  /\ annotations[selectedAnnotation] =
       [originalAnnotation EXCEPT !.width = @ + 20, !.height = @ + 10]


\* C16: a pointer-move in Moving sets the x and y of the moved annotation to
\* the snapshot's plus (cur - anchor) / scale and keeps the width, height, id
\* and label the annotation had.
C16_MoveRule ==
  [][ (/\ ev'.type = "mousemove"
       /\ Phase = "Moving"
       /\ selectedAnnotation # NoIndex
       /\ annotations[selectedAnnotation].id = originalAnnotation.id)
        => LET o == originalAnnotation
               d == FrameDelta(ev'.pos, dragStart)
               b == annotations[selectedAnnotation]
               r == annotations'[selectedAnnotation]
           IN  /\ r.x = o.x + d.x
               /\ r.y = o.y + d.y
               /\ r.width = b.width
               /\ r.height = b.height
               /\ r.id = b.id
               /\ r.label = b.label ]_vars


\* C17: a move gesture with zero delta (a pointer-down in Idle that starts a
\* move, a pointer-move to the same device point, a pointer-up) leaves the
\* list identical; the pointer-move calls the Change Notifier once with a
\* list equal to the one before the gesture, the pointer-down and the
\* pointer-up call nothing.
C17_ZeroDeltaMove ==
  [][ /\ (/\ ev'.type = "mousedown"
          /\ Phase = "Idle"
          /\ Phase' = "Moving")
           => (annotations' = annotations /\ notified' = 0)
      /\ (/\ ev.type = "mousedown"
          /\ ev.during = "Idle"
          /\ Phase = "Moving"
          /\ ev'.type = "mousemove"
          /\ ev'.pos = ev.pos)
           => (/\ annotations' = annotations
               /\ notified' = 1
               /\ lastNotified' = {annotations})
      /\ (ev'.type = "mouseup" /\ Phase = "Moving")
           => (/\ annotations' = annotations
               /\ notified' = 0
               /\ lastNotified' = lastNotified) ]_vars

\* the pointer-move of a move gesture has arrived at the point of the press
\* and has reported the list, which is the initial one
C17_Witness ==
  /\ ev.type = "mousemove"
  /\ ev.during = "Moving"
  /\ ev.pos = dragStart
  /\ events = 3
  /\ notified = 1
  /\ lastNotified = {annotations}
  /\ annotations \in InitialLists
  /\ annotations[selectedAnnotation] = originalAnnotation


\* C18: a pointer-up in Moving or Resizing returns to Idle, clears the handle,
\* the anchor and the snapshot, keeps the selection, leaves the list unchanged
\* and calls no Change Notifier.
C18_PointerUpEndsEdit ==
  [][ (ev'.type = "mouseup" /\ Phase \in {"Moving", "Resizing"})
        => (/\ Phase' = "Idle"
            /\ resizeHandle' = "null"
            /\ dragStart' = Null
            /\ originalAnnotation' = Null
            /\ selectedAnnotation' = selectedAnnotation
            /\ annotations' = annotations
            /\ notified' = 0
            /\ lastNotified' = lastNotified) ]_vars


ClaimOrder == <<"nw", "ne", "sw", "se", "n", "s", "w", "e">>

\* the first handle of ClaimOrder whose hotspot contains p, "null" when the
\* annotation at index is not the selection or no hotspot contains p
FirstHandle(p, a, index) ==
  LET hits == { k \in 1..Len(ClaimOrder) : InHotspot(p, ClaimOrder[k], a) }
  IN  IF index # selectedAnnotation \/ hits = {} THEN "null"
      ELSE ClaimOrder[CHOOSE k \in hits : \A j \in hits : k <= j]

\* C19: for every annotation and point, the handle test returns the first
\* handle in the order nw, ne, sw, se, n, s, w, e whose 12x12 hotspot, centred
\* on the corner or edge midpoint of the annotation's device box, contains
\* the point, and null when none does or the annotation is not the selection.
C19_FirstHandleInOrder ==
  \A i \in Indices : \A d \in ProbeOffsets :
    LET p == ProbeAt(annotations[i], d)
    IN  getResizeHandle(p, annotations[i], i) = FirstHandle(p, annotations[i], i)

\* a press has started a resize of the selected annotation at the handle that
\* comes first among several whose hotspots contain the point
C19_Witness ==
  /\ ev.type = "mousedown"
  /\ Phase = "Resizing"
  /\ selectedAnnotation # NoIndex
  /\ originalAnnotation = annotations[selectedAnnotation]
  /\ resizeHandle = FirstHandle(ev.pos, originalAnnotation, selectedAnnotation)
  /\ \E h \in HandleNames \ {resizeHandle} :
        InHotspot(ev.pos, h, originalAnnotation)


\* the image-space point of a device point: (device - offset) / scale,
\* clamped to the image once its size is known
ImagePoint(p) ==
  LET rx == ((p.x - imageOffset.x) * scale.d) \div scale.n
      ry == ((p.y - imageOffset.y) * scale.d) \div scale.n
  IN  IF image = Null THEN Pt(rx, ry)
      ELSE Pt(Max(0, Min(rx, image.width)), Max(0, Min(ry, image.height)))

\* C20: the annotation a draw gesture inserts is the rectangle spanned by the
\* image-space points of the pointer-down and of the last pointer-move:
\* x and y their minima, width and height their absolute differences.
C20_DrawGeometry ==
  [][ (/\ ev'.type = "mouseup"
       /\ ev.type = "mousemove"
       /\ Phase = "Drawing"
       /\ selectedTool = "bbox"
       /\ startPoint # Null
       /\ Len(annotations') = Len(annotations) + 1)
        => LET a == ImagePoint(startPoint)
               c == ImagePoint(ev.pos)
               r == annotations'[Len(annotations')]
           IN  /\ r.x = Min(a.x, c.x)
               /\ r.y = Min(a.y, c.y)
               /\ r.width = Abs(c.x - a.x)
               /\ r.height = Abs(c.y - a.y) ]_vars


\* texts without a blank at either end
CoreTexts == { "", "cat", "dog", "A", "B" }

\* the text that s is once the blanks around it are taken away: s is that
\* text with a blank put before it, after it, both or neither
TrimmedOf(s) ==
  CHOOSE t \in CoreTexts : s \in { t, " " \o t, t \o " ", " " \o t \o " " }

\* C21: confirming a label edit (Enter or blur) on annotation i with a buffer
\* whose trimmed text is not empty sets the label of i to the trimmed text,
\* changes no other field and no other annotation, calls the Change Notifier
\* once and closes the editor; with an empty or blank buffer it closes the
\* editor, changes nothing and calls nothing.
C21_ConfirmLabel ==
  [][ (ev'.type \in {"saveLabelEdit", "blur"})
        => /\ editingLabel' = NoIndex
           /\ IF TrimmedOf(tempLabel) # ""
                THEN /\ Len(annotations') = Len(annotations)
                     /\ \A i \in Indices :
                          annotations'[i] =
                            IF i = editingLabel
                              THEN [annotations[i] EXCEPT !.label = TrimmedOf(tempLabel)]
                              ELSE annotations[i]
                     /\ notified' = 1
                     /\ lastNotified' = {annotations'}
                ELSE /\ annotations' = annotations
                     /\ notified' = 0
                     /\ lastNotified' = lastNotified ]_vars

\* the buffer " cat " has just been confirmed on the second annotation
C21_Witness ==
  /\ ev.type \in {"saveLabelEdit", "blur"}
  /\ editingLabel = NoIndex
  /\ annotations = <<SeedA, [SeedB EXCEPT !.label = "cat"]>>
  /\ notified = 1


\* C22: cancelling a label edit empties the buffer and closes the editor
\* without changing an annotation or calling the Change Notifier; starting a
\* label edit sets the buffer to the annotation's label and changes nothing.
C22_CancelAndStart ==
  [][ /\ (ev'.type = "cancelLabelEdit")
           => (/\ editingLabel' = NoIndex
               /\ tempLabel' = ""
               /\ annotations' = annotations
               /\ notified' = 0
               /\ lastNotified' = lastNotified)
      /\ (ev'.type = "startLabelEdit")
           => (/\ editingLabel' \in Indices
               /\ tempLabel' = annotations[editingLabel'].label
               /\ annotations' = annotations
               /\ notified' = 0
               /\ lastNotified' = lastNotified) ]_vars

\* an edit of a label was started, the buffer was changed and the edit has
\* just been cancelled: the list is the initial one
C22_Witness ==
  /\ ev.type = "cancelLabelEdit"
  /\ events = 4
  /\ editingLabel = NoIndex
  /\ tempLabel = ""
  /\ annotations = <<SeedA, SeedB>>
  /\ lastNotified = {}

\* the state of the tool, the selection and the gestures
GestureState ==
  <<selectedTool, selectedAnnotation, isDrawing, startPoint, currentRect,
    isEditing, editMode, resizeHandle, dragStart, originalAnnotation>>

CoreWriters ==
  { "mouseup", "mousemove", "saveLabelEdit", "blur", "keyDelete",
    "deleteSelected", "clearAll" }

\* C24: after construction the list changes only in the component's own
\* operations; a render with another initial list or another image
\* reference, and the image load that follows it, leave the list and the
\* selection unchanged and call no Change Notifier.
C24_SeededOnce ==
  [][ /\ (ev'.type \in {"hostRender", "load"})
           => (/\ annotations' = annotations
               /\ selectedAnnotation' = selectedAnnotation
               /\ notified' = 0
               /\ lastNotified' = lastNotified)
      /\ (annotations' # annotations) => ev'.type \in CoreWriters ]_vars

\* the host has just rendered the component with another initial list and
\* another image; the list and the selection are still the component's
C24_Witness ==
  /\ ev.type = "hostRender"
  /\ ev.initialAnnotations # annotations
  /\ imageUrl # image
  /\ annotations = <<SeedA, SeedB>>
  /\ selectedAnnotation # NoIndex


\* C25: once an image of width w and height h has loaded, the scale is
\* min(760 / w, 560 / h, 1), so 0 < scale <= 1, the offsets are
\* (800 - w * scale) / 2 and (600 - h * scale) / 2, and the scaled image lies
\* inside the 800x600 area with at least 20 device units on every side.
C25_ViewportOfImage ==
  image # Null =>
    LET w == image.width
        h == image.height
        n == scale.n
        d == scale.d
    IN  /\ n > 0 /\ d > 0 /\ n <= d
        /\ n * w <= 760 * d
        /\ n * h <= 560 * d
        /\ n = d \/ n * w = 760 * d \/ n * h = 560 * d
        /\ 2 * d * imageOffset.x = 800 * d - w * n
        /\ 2 * d * imageOffset.y = 600 * d - h * n
        /\ imageOffset.x >= 20 /\ imageOffset.y >= 20
        /\ d * imageOffset.x + w * n <= 780 * d
        /\ d * imageOffset.y + h * n <= 580 * d

\* a 400x300 image has loaded at scale 1, centred at (200, 150)
C25_Witness ==
  /\ ev.type = "load"
  /\ image = [width |-> 400, height |-> 300]
  /\ scale = [n |-> 1, d |-> 1]
  /\ imageOffset = Pt(200, 150)


\* image coordinates probed by the round trip, the far edge of the image included
RoundTripCoords(dim) == { c \in {0, 1, 2, 3, 4, 6, dim} : c <= dim }

\* the device coordinate of an image coordinate is a whole number
WholeDevice(c) == (c * scale.n) % scale.d = 0

\* C26: an image point inside [0, imageWidth] x [0, imageHeight], taken to
\* device space and back through the clamped device-to-image conversion, is
\* itself again.
C26_RoundTrip ==
  \A x \in RoundTripCoords(imageWidth), y \in RoundTripCoords(imageHeight) :
    (WholeDevice(x) /\ WholeDevice(y))
      => getImageMousePos(imageToDevice(Pt(x, y))) = Pt(x, y)

\* a 1140x840 image shown at scale 2/3: (3, 6) is drawn at (22, 24) and the
\* far corner (1140, 840) at (780, 580)
C26_Witness ==
  /\ image = [width |-> 1140, height |-> 840]
  /\ scale = [n |-> 2, d |-> 3]
  /\ imageToDevice(Pt(3, 6)) = Pt(22, 24)
  /\ imageToDevice(Pt(imageWidth, imageHeight)) = Pt(780, 580)
  /\ getImageMousePos(Pt(22, 24)) = Pt(3, 6)


\* C27: while no image has loaded, the redraw still produces an image-less
\* frame: the surface is cleared, the background is filled and the current
\* annotations are drawn.
C27_ImagelessFrame ==
  image = Null =>
    /\ drawCanvas.cleared
    /\ drawCanvas.background = "#f3f4f6"
    /\ drawCanvas.image = Null
    /\ drawCanvas.boxes = annotations

\* clamp((device - offset) / scale, 0, imageDim), the image size being 0 by 0
\* while no image has loaded
ClampedPoint(p) ==
  Pt(Max(0, Min(imageWidth, ((p.x - imageOffset.x) * scale.d) \div scale.n)),
     Max(0, Min(imageHeight, ((p.y - imageOffset.y) * scale.d) \div scale.n)))

\* the rectangle lies inside [0, imageWidth] x [0, imageHeight]
RectInImage(r) ==
  /\ r.x >= 0 /\ r.y >= 0
  /\ r.width >= 0 /\ r.height >= 0
  /\ r.x + r.width <= imageWidth
  /\ r.y + r.height <= imageHeight

\* C28: every pointer-move of a draw gesture leaves an in-progress rectangle
\* spanned by the clamped image points of the anchor and of the pointer, so
\* the rectangle lies inside the image, wherever the pointer-down landed and
\* whether or not the image has loaded.
C28_DrawRectClamped ==
  [][ (/\ ev'.type = "mousemove"
       /\ isDrawing /\ ~isEditing
       /\ startPoint # Null /\ selectedTool = "bbox")
        => LET a == ClampedPoint(startPoint)
               c == ClampedPoint(ev'.pos)
           IN  /\ currentRect' = [x |-> Min(a.x, c.x), y |-> Min(a.y, c.y),
                                  width |-> Abs(c.x - a.x),
                                  height |-> Abs(c.y - a.y)]
               /\ RectInImage(currentRect') ]_vars


\* C29: a pointer-move frame of a Moving or Resizing gesture changes no
\* annotation but the one the gesture's pointer-down hit, whose geometry was
\* snapshotted then: every other annotation keeps its id, geometry and label,
\* whatever happened to the selection since.
C29_FrameTouchesOnlyHit ==
  [][ (/\ ev'.type = "mousemove"
       /\ isEditing
       /\ originalAnnotation # Null)
        => /\ Len(annotations') = Len(annotations)
           /\ \A i \in Indices :
                 annotations[i].id # originalAnnotation.id
                   => annotations'[i] = annotations[i] ]_vars


\* C30: at most one gesture is active: the drawing flag and the editing flag
\* are never both set, and a draw gesture is in progress only while the tool
\* is the draw tool.
C30_OneGesture ==
  /\ ~(isDrawing /\ isEditing)
  /\ isDrawing => selectedTool = "bbox"


\* C31: once every pending load has completed, in whatever order, the image
\* shown and the viewport computed from it are those of the most recent image
\* reference.
C31_LatestImageWins ==
  loading = {} =>
    /\ image = imageUrl
    /\ scale = NewScale(imageUrl)
    /\ imageOffset = NewOffset(imageUrl, NewScale(imageUrl))


\* C32: the selection is empty or the index of an annotation of the list.
C32_SelectionValid ==
  selectedAnnotation = NoIndex \/ selectedAnnotation \in Indices


\* a draw commit has made the list longer than any seeded one, and the new
\* last annotation has been selected
C32_Witness ==
  /\ Len(annotations) = 3
  /\ selectedAnnotation = 3
  /\ ev.type \in {"rowClick", "mousedown"}


C34_EditOnlyInsideTopmost ==
  [][ (/\ ev'.type = "mousedown"
       /\ selectedTool = "select"
       /\ Phase = "Idle")
        => /\ Phase' \in {"Moving", "Resizing"}
                => /\ selectedAnnotation # NoIndex
                   /\ InBox(ev'.pos, annotations[selectedAnnotation])
                   /\ \A j \in Indices :
                         j > selectedAnnotation => ~InBox(ev'.pos, annotations[j])
                   /\ selectedAnnotation' = selectedAnnotation
                   /\ originalAnnotation' = annotations[selectedAnnotation]
           /\ (/\ selectedAnnotation # NoIndex
               /\ \E h \in HandleNames :
                     InHotspot(ev'.pos, h, annotations[selectedAnnotation])
               /\ \/ ~InBox(ev'.pos, annotations[selectedAnnotation])
                  \/ \E j \in Indices :
                        j > selectedAnnotation /\ InBox(ev'.pos, annotations[j]))
                => /\ Phase' = "Idle"
                   /\ selectedAnnotation' # selectedAnnotation
                   /\ annotations' = annotations ]_vars

\* a press inside the first annotation, selected before and covered by no
\* later one at that point, has just started a resize at its top-left handle
C34_Witness ==
  /\ ev.type = "mousedown"
  /\ ev.during = "Idle"
  /\ Phase = "Resizing"
  /\ Len(annotations) = 2
  /\ selectedAnnotation = 1
  /\ resizeHandle = "nw"
  /\ InBox(ev.pos, annotations[1])
  /\ ~InBox(ev.pos, annotations[2])


\* C35: a draw commit appends the new annotation after the existing ones,
\* which keep their places and contents; the new annotation is the one the
\* hit test finds at every point its device box contains; its label is
\* "Object N" with N one more than the number of annotations before.
C35_CommitAppends ==
  [][ (/\ ev'.type = "mouseup"
       /\ Len(annotations') > Len(annotations))
        => LET n == Len(annotations) IN
           /\ Len(annotations') = n + 1
           /\ \A i \in 1..n : annotations'[i] = annotations[i]
           /\ annotations'[n + 1].label = "Object " \o ToString(n + 1)
           /\ \A p \in Points :
                 InBox(p, annotations'[n + 1])
                   => findAnnotationAt(annotations', p) = n + 1 ]_vars

\* a draw commit has put a third annotation over a point that the first two
\* contain as well
C35_Witness ==
  /\ ev.type = "mouseup"
  /\ ev.during = "Drawing"
  /\ Len(annotations) = 3
  /\ annotations[3].label = "Object 3"
  /\ \E p \in Points :
        /\ InBox(p, annotations[1])
        /\ InBox(p, annotations[2])
        /\ InBox(p, annotations[3])


\* C36: a label confirm leaves the list that was seeded or delivered before
\* it as it was handed over: the records of that list are not written to.
C36_HandedOverListIntact ==
  [][ (/\ ev'.type \in {"saveLabelEdit", "blur"}
       /\ lastNotified \in {{}, {annotations}})
        => ev'.held = annotations ]_vars


\* C37: in the draw tool, a pointer-down in Idle clears the selection, records
\* the device point as anchor and enters Drawing; the list is unchanged and
\* nothing is reported, whether or not the point hits an annotation.
C37_DrawPress ==
  [][ (/\ ev'.type = "mousedown"
       /\ selectedTool = "bbox"
       /\ Phase = "Idle")
        => /\ selectedAnnotation' = NoIndex
           /\ startPoint' = ev'.pos
           /\ Phase' = "Drawing"
           /\ isDrawing' /\ ~isEditing'
           /\ annotations' = annotations
           /\ notified' = 0
           /\ lastNotified' = lastNotified ]_vars

\* a press in the draw tool on a point inside an annotation has just started
\* a draw gesture
C37_Witness ==
  /\ ev.type = "mousedown"
  /\ ev.during = "Idle"
  /\ selectedTool = "bbox"
  /\ Phase = "Drawing"
  /\ startPoint = ev.pos
  /\ selectedAnnotation = NoIndex
  /\ \E i \in Indices : InBox(ev.pos, annotations[i])


\* C38: a clear leaves the list empty and the selection empty and reports
\* the empty list in exactly one notification, whatever the list and the
\* selection were.
C38_ClearEmpties ==
  [][ (ev'.type = "clearAll")
        => /\ annotations' = <<>>
           /\ selectedAnnotation' = NoIndex
           /\ notified' = 1
           /\ lastNotified' = {<<>>} ]_vars

\* a clear has just emptied the list in the middle of a move or resize
\* gesture, that is, with annotations in the list and one of them selected
C38_Witness ==
  /\ ev.type = "clearAll"
  /\ ev.during \in {"Moving", "Resizing"}
  /\ annotations = <<>>
  /\ selectedAnnotation = NoIndex
  /\ notified = 1
  /\ lastNotified = {<<>>}

====
